---- MODULE Spec2Model ----
(***************************************************************************)
(* Model of app.py: the entity extractors (extract_ticker,                 *)
(* extract_company_name), the market-data gateway wrapper                  *)
(* (get_yfinance_data) and the staged investment_analysis_pipeline.        *)
(*                                                                         *)
(* Representation.  A Python str is a sequence of one-character strings.   *)
(* A generated text (prompt, agent reply, message) is a sequence of string *)
(* tokens.  Optional[x] is None == <<>> or Some(x) == <<x>>.  A Python     *)
(* dict is a function whose DOMAIN is the set of keys present.             *)
(* The regular expressions are modelled over the characters that occur in  *)
(* the query sets below; re.IGNORECASE is the ASCII letter folding.        *)
(***************************************************************************)
EXTENDS Integers, Sequences, FiniteSets, TLC

\* ------------------------------------------------------------------ bounds
MaxFrags == 2
MaxRuns == 2
MaxDate == 2
MaxLoops == 2

\* -------------------------------------------------------- Optional values
None == <<>>
Some(x) == <<x>>
Truthy(o) == o # None /\ o[1] # <<>>

\* ------------------------------------------------------ character classes
UpperSeq == <<"A", "B", "C", "D", "E", "F", "G", "H", "I", "J", "K", "L", "M", "N", "O", "P", "Q", "R", "S", "T", "U", "V", "W", "X", "Y", "Z">>
LowerSeq == <<"a", "b", "c", "d", "e", "f", "g", "h", "i", "j", "k", "l", "m", "n", "o", "p", "q", "r", "s", "t", "u", "v", "w", "x", "y", "z">>
Upper == {UpperSeq[i] : i \in 1..26}
Lower == {LowerSeq[i] : i \in 1..26}
Digit == {"0", "1", "2", "3", "4", "5", "6", "7", "8", "9"}
\* \w of the re module
WordChar == Upper \cup Lower \cup Digit \cup {"_"}
\* the characters str.strip() removes
Whitespace == {" ", "\t", "\n", "\r"}
Newline == "\n"

\* re.IGNORECASE compares letters by their lower-case form
ToLower(c) ==
  IF c \in Upper THEN LowerSeq[CHOOSE i \in 1..26 : UpperSeq[i] = c] ELSE c

\* the least element of a non-empty set of integers
Min(S) == CHOOSE m \in S : \A n \in S : m <= n

\* ------------------------------------------------------- regex primitives
\* a literal of the pattern matches at position i (case-insensitively)
LitAt(q, i, lit) ==
  /\ i >= 1
  /\ i + Len(lit) - 1 <= Len(q)
  /\ \A k \in 1..Len(lit) : ToLower(q[i + k - 1]) = ToLower(lit[k])

IsWordAt(q, p) == p >= 1 /\ p <= Len(q) /\ q[p] \in WordChar

\* \b between positions p-1 and p
WordBoundary(q, p) == IsWordAt(q, p - 1) # IsWordAt(q, p)

\* $ without re.MULTILINE: the end, or just before a final newline
DollarAt(q, p) == p = Len(q) + 1 \/ (p = Len(q) /\ q[p] = Newline)

\* "." matches every character except a newline
DotRun(q, s, e) == \A k \in s..(e - 1) : q[k] # Newline

\* str.strip()
strip(s) ==
  LET keep == {i \in 1..Len(s) : s[i] \notin Whitespace}
  IN  IF keep = {} THEN <<>>
      ELSE SubSeq(s, Min(keep), CHOOSE m \in keep : \A n \in keep : n <= m)

\* -------------------------------------------------------- validate_ticker
\* re.match(r'^[A-Z]{1,5}$', ticker)
validate_ticker(ticker) ==
  \E k \in 1..5 :
    /\ k <= Len(ticker)
    /\ \A j \in 1..k : ticker[j] \in Upper
    /\ DollarAt(ticker, k + 1)

\* --------------------------------------------------------- extract_ticker
\* TickerLenAt for the pattern without its closing \b
TickerLenAt_NoClosingBoundary(q, i) ==
  LET ks == {k \in 1..5 :
               /\ i + k - 1 <= Len(q)
               /\ \A j \in 0..(k - 1) : q[i + j] \in Upper}
  IN  IF WordBoundary(q, i) /\ ks # {}
      THEN CHOOSE k \in ks : \A n \in ks : n <= k
      ELSE 0

\* TickerLenAt for the pattern without its opening \b
TickerLenAt_NoOpeningBoundary(q, i) ==
  LET ks == {k \in 1..5 :
               /\ i + k - 1 <= Len(q)
               /\ \A j \in 0..(k - 1) : q[i + j] \in Upper
               /\ WordBoundary(q, i + k)}
  IN  IF ks # {}
      THEN CHOOSE k \in ks : \A n \in ks : n <= k
      ELSE 0

\* r'\b([A-Z]{1,5})\b' tried at position i: the greedy {1,5} gives up
\* letters until the closing \b holds; 0 when there is no match at i
TickerLenAt(q, i) ==
  LET ks == {k \in 1..5 :
               /\ i + k - 1 <= Len(q)
               /\ \A j \in 0..(k - 1) : q[i + j] \in Upper
               /\ WordBoundary(q, i + k)}
  IN  IF WordBoundary(q, i) /\ ks # {}
      THEN CHOOSE k \in ks : \A n \in ks : n <= k
      ELSE 0

\* matches[0] of re.findall, or None
extract_ticker(query) ==
  LET starts == {i \in 1..Len(query) : TickerLenAt(query, i) > 0}
  IN  IF starts = {} THEN None
      ELSE LET i == Min(starts)
           IN  Some(SubSeq(query, i, i + TickerLenAt(query, i) - 1))

\* --------------------------------------------------- extract_company_name
LitAnalysisOf == <<"a", "n", "a", "l", "y", "s", "i", "s", " ", "o", "f", " ">>
LitPlease == <<" ", "p", "l", "e", "a", "s", "e">>
LitResearchOn == <<"r", "e", "s", "e", "a", "r", "c", "h", " ", "o", "n", " ">>
LitInformationAbout == <<"i", "n", "f", "o", "r", "m", "a", "t", "i", "o", "n", " ", "a", "b", "o", "u", "t", " ">>
LitEvaluate == <<"e", "v", "a", "l", "u", "a", "t", "e", " ">>
LitAnalyze == <<"a", "n", "a", "l", "y", "z", "e", " ">>

\* each pattern is  head (.*?) tail ; tail <<>> stands for $
patterns ==
  << [head |-> LitAnalysisOf, tail |-> LitPlease],
     [head |-> LitResearchOn, tail |-> <<>>],
     [head |-> LitInformationAbout, tail |-> <<>>],
     [head |-> LitEvaluate, tail |-> <<>>],
     [head |-> LitAnalyze, tail |-> <<>>] >>

\* the positions where the lazy group (.*?) started at s may end
CaptureEnds(pattern, q, s) ==
  {e \in s..(Len(q) + 1) :
     /\ DotRun(q, s, e)
     /\ IF pattern.tail = <<>> THEN DollarAt(q, e) ELSE LitAt(q, e, pattern.tail)}

\* the start positions at which the whole pattern matches
MatchStarts(pattern, q) ==
  {i \in 1..Len(q) :
     /\ LitAt(q, i, pattern.head)
     /\ CaptureEnds(pattern, q, i + Len(pattern.head)) # {}}

\* re.search(pattern, query, re.IGNORECASE): None, or Some(group(1)) of the
\* leftmost match, the lazy group taking the shortest capture
search(pattern, q) ==
  IF MatchStarts(pattern, q) = {} THEN None
  ELSE LET i == Min(MatchStarts(pattern, q))
           s == i + Len(pattern.head)
       IN  Some(SubSeq(q, s, Min(CaptureEnds(pattern, q, s)) - 1))

\* FirstPattern that takes the pattern matching leftmost in the query
FirstPattern_ByPosition(q) ==
  LET hit == {n \in 1..Len(patterns) : search(patterns[n], q) # None}
  IN  IF hit = {} THEN 0
      ELSE CHOOSE n \in hit :
             \A m \in hit : Min(MatchStarts(patterns[n], q)) <= Min(MatchStarts(patterns[m], q))

\* the index of the first pattern, in list order, that matches; 0 if none
FirstPattern(q) ==
  LET hit == {n \in 1..Len(patterns) : search(patterns[n], q) # None}
  IN  IF hit = {} THEN 0 ELSE Min(hit)

extract_company_name(query) ==
  IF FirstPattern(query) = 0 THEN None
  ELSE Some(strip(search(patterns[FirstPattern(query)], query)[1]))

\* ----------------------------------------------------------------- queries
FragAnalyze == <<"A", "n", "a", "l", "y", "z", "e", " ">>
FragTSLA == <<"T", "S", "L", "A">>
FragTesla == <<"T", "e", "s", "l", "a">>
FragLong == <<"A", "B", "C", "D", "E", "F">>
ScenarioA == <<"A", "n", "a", "l", "y", "z", "e", " ", "T", "e", "s", "l", "a", "'", "s", " ", "f", "i", "n", "a", "n", "c", "i", "a", "l", " ", "p", "o", "s", "i", "t", "i", "o", "n", " ", "(", "T", "S", "L", "A", ")">>
ScenarioB == <<"R", "e", "s", "e", "a", "r", "c", "h", " ", "o", "n", " ", "N", "V", "I", "D", "I", "A", " ", "C", "o", "r", "p", "o", "r", "a", "t", "i", "o", "n">>
ScenarioC == <<"x", "y", "z">>

\* two phrases, the one later in the pattern list first in the query
QueryTwoPhrases == <<"A", "n", "a", "l", "y", "z", "e", " ", "e", "v", "a", "l", "u", "a", "t", "e", " ", "T", "e", "s", "l", "a">>

\* the pieces the bounded queries are assembled from
Fragments ==
  { FragAnalyze, LitResearchOn, LitAnalysisOf, LitPlease, LitEvaluate,
    LitInformationAbout, FragTSLA, FragTesla, FragLong, <<" ">>, <<Newline>>,
    <<"9">>, <<"(">> }

RECURSIVE Assembled(_)
Assembled(n) ==
  IF n = 0 THEN {<<>>}
  ELSE Assembled(n - 1) \cup {q \o f : q \in Assembled(n - 1), f \in Fragments}

Queries ==
  Assembled(MaxFrags) \cup {ScenarioA, ScenarioB, ScenarioC, QueryTwoPhrases}

\* the queries a repeated run is started on
RerunQueries == {ScenarioA, ScenarioB, ScenarioC, FragTSLA}

\* datetime.now(), read once per run
Dates == 1..MaxDate

\* --------------------------------------------------------- external world
\* research_agent, finance_agent, analysis_agent, editor_agent are the four
\* Agent objects; get_yfinance_data wraps the yfinance provider.

VARIABLES
  query,            \* argument of investment_analysis_pipeline
  pc,               \* position of the run in investment_analysis_pipeline
  company_name,     \* local, Optional[str]
  ticker,           \* local, Optional[str]
  results,          \* local dict; the value returned once pc = "returned"
  research_output,  \* local, Optional: content of the research reply
  financial_data,   \* local, Optional: dict returned by get_yfinance_data
  analysis_output,  \* local, Optional: content of the synthesis reply
  calls,            \* the external calls this run has made, in order
  stub,             \* what the external world has answered so far, by input
  history           \* the finished earlier runs of this process

vars == <<query, pc, company_name, ticker, results, research_output,
          financial_data, analysis_output, calls, stub, history>>

\* An external call with a given input has the outcome it had before, if it
\* was made before; otherwise it may succeed or fail.
StubOutcomes(call, input) ==
  IF \E m \in stub : m.call = call /\ m.input = input
  THEN {m.ok : m \in {n \in stub : n.call = call /\ n.input = input}}
  ELSE BOOLEAN

\* the text an agent generates: a fixed function of the agent and the prompt
Reply(agent, prompt) == <<"[", agent, ": ">> \o prompt \o <<"]">>

\* str(e) of the exception a failing agent call raises
ExcText(agent) == <<"Exception raised by ", agent>>

Called(call, input, ok) == [call |-> call, input |-> input, ok |-> ok]

\* ------------------------------------------------------ get_yfinance_data
\* the snapshot assembled from the provider's answers
Snapshot(t) == [ticker |-> t, company_name |-> t, data |-> <<"yfinance data">>]

\* ok: the provider calls inside the try block did not raise
get_yfinance_data(t, ok) ==
  IF ~validate_ticker(t) THEN [error |-> <<"Invalid ticker symbol">>]
  ELSE IF ok THEN Snapshot(t)
  ELSE [error |-> <<"Failed to fetch yfinance data: ", "provider error">>]

\* json.dumps(financial_data, indent=2)
json_dumps(fd) ==
  <<"{ticker: ">> \o fd.ticker \o <<", company_name: ">> \o fd.company_name
    \o <<", data: ">> \o fd.data \o <<"}">>

\* ------------------------------------------- investment_analysis_pipeline
ExtractionError == <<"Could not identify company or ticker from query">>
SkippedOutput == <<"No ticker provided - skipping quantitative analysis">>

\* the value returned when neither a company nor a ticker is found
ExtractionFailure == [error |-> ExtractionError]

\* ResolveCompany that falls back to the whole query
ResolveCompany_UsesQuery(c, t) == IF ~Truthy(c) /\ Truthy(t) THEN Some(query) ELSE c

\* if not company_name and ticker: company_name = ticker
ResolveCompany(c, t) == IF ~Truthy(c) /\ Truthy(t) THEN t ELSE c

\* results = {"company": ..., "ticker": ..., "date": ..., "stages": {}}
NewResults(c, t, d) == [company |-> c[1], ticker |-> t, date |-> d, stages |-> <<>>]

\* SetStage that assigns a fresh one-entry map to results["stages"]
SetStage_Replaces(res, name, entry) == [res EXCEPT !.stages = (name :> entry)]

\* results["stages"][name] = entry
SetStage(res, name, entry) == [res EXCEPT !.stages = (name :> entry) @@ @]

\* results[key] = value
SetKey(res, key, value) == (key :> value) @@ res

\* ResearchPrompt that also quotes the date of the run
ResearchPrompt_Dated(c) ==
  <<"Comprehensive financial research on ">> \o c \o <<"as of", ToString(results["date"])>>

ResearchPrompt(c) == <<"Comprehensive financial research on ">> \o c

FinancePrompt(fd) == <<"Analyze these financial metrics: ">> \o json_dumps(fd)

\* QuantText that passes the stage's text on only when the stage completed
QuantText_CompletedOnly(res, fallback) ==
  IF /\ "quantitative_analysis" \in DOMAIN res.stages
     /\ res.stages["quantitative_analysis"].status = "completed"
  THEN res.stages["quantitative_analysis"].output
  ELSE fallback

\* the text of the quantitative stage as the two later prompts read it
QuantText(res, fallback) ==
  IF "quantitative_analysis" \in DOMAIN res.stages
  THEN res.stages["quantitative_analysis"].output
  ELSE fallback

AnalysisInput(research, res) ==
  <<"Qualitative Research:">> \o research \o <<"Quantitative Analysis:">>
    \o QuantText(res, <<"No quantitative data available">>)

EditorPrompt(research, res, analysis) ==
  <<"Qualitative Research Summary:">> \o research \o <<"Financial Analysis:">>
    \o QuantText(res, <<"No financial data available">>)
    \o <<"Investment Analysis:">> \o analysis

\* InTry with the try block closed before stage 4
InTry_EditorOutside(step) ==
  step \in {"research", "quant", "finance", "synthesis"}

\* the statements of the positions that lie inside the try block
InTry(step) ==
  step \in {"research", "quant", "finance", "synthesis", "editor"}

\* HandleException that records the error but leaves status unset
HandleException_NoStatus(res, e) == SetKey(res, "error", e)

\* HandleException that names the failed status "error"
HandleException_StatusError(res, e) == SetKey(SetKey(res, "error", e), "status", "error")

\* except Exception as e: results["error"] = str(e); results["status"] = "failed"
HandleException(res, e) == SetKey(SetKey(res, "error", e), "status", "failed")

\* Raise that runs the failed statement once more before giving up
Raise_Retries(e) ==
  IF InTry(pc) /\ Len(calls) < 2
  THEN pc' = pc /\ UNCHANGED results
  ELSE results' = HandleException(results, e) /\ pc' = "returned"

\* an exception raised at position pc: handled when inside the try block,
\* propagated to the caller otherwise
Raise(e) ==
  IF InTry(pc)
  THEN results' = HandleException(results, e) /\ pc' = "returned"
  ELSE pc' = "raised" /\ UNCHANGED results

\* a local that has not been assigned yet
Unbound == None

Init ==
  /\ query \in Queries
  /\ pc = "start"
  /\ company_name = Unbound
  /\ ticker = Unbound
  /\ results = <<>>
  /\ research_output = Unbound
  /\ financial_data = Unbound
  /\ analysis_output = Unbound
  /\ calls = <<>>
  /\ stub = {}
  /\ history = <<>>

\* lines 238-255: extraction, the early return, the fallback, the new dict
Extract ==
  /\ pc = "start"
  /\ LET c == extract_company_name(query)
         t == extract_ticker(query)
     IN  IF ~Truthy(c) /\ ~Truthy(t)
         THEN /\ company_name' = c
              /\ ticker' = t
              /\ results' = ExtractionFailure
              /\ pc' = "returned"
         ELSE /\ company_name' = ResolveCompany(c, t)
              /\ ticker' = t
              /\ \E d \in Dates :
                   results' = NewResults(ResolveCompany(c, t), t, d)
              /\ pc' = "research"
  /\ UNCHANGED <<query, research_output, financial_data, analysis_output,
                 calls, stub, history>>

\* Research that keeps the reply in the local only, recording no entry
Research_NoEntry ==
  /\ pc = "research"
  /\ LET prompt == ResearchPrompt(company_name[1])
     IN  \E ok \in StubOutcomes("research_agent", prompt) :
           /\ calls' = Append(calls, Called("research_agent", prompt, ok))
           /\ stub' = stub \cup {Called("research_agent", prompt, ok)}
           /\ IF ok
              THEN /\ research_output' = Some(Reply("research_agent", prompt))
                   /\ pc' = "quant"
                   /\ UNCHANGED results
              ELSE /\ Raise(ExcText("research_agent"))
                   /\ UNCHANGED research_output
  /\ UNCHANGED <<query, company_name, ticker, financial_data,
                 analysis_output, history>>

\* lines 258-264: stage 1
Research ==
  /\ pc = "research"
  /\ LET prompt == ResearchPrompt(company_name[1])
     IN  \E ok \in StubOutcomes("research_agent", prompt) :
           /\ calls' = Append(calls, Called("research_agent", prompt, ok))
           /\ stub' = stub \cup {Called("research_agent", prompt, ok)}
           /\ IF ok
              THEN /\ research_output' = Some(Reply("research_agent", prompt))
                   /\ results' = SetStage(results, "qualitative_research",
                        [output |-> Reply("research_agent", prompt),
                         status |-> "completed"])
                   /\ pc' = "quant"
              ELSE /\ Raise(ExcText("research_agent"))
                   /\ UNCHANGED research_output
  /\ UNCHANGED <<query, company_name, ticker, financial_data,
                 analysis_output, history>>

\* Gateway with the error of the data fetch raised instead of recorded
Gateway_ErrorIsFatal ==
  /\ pc = "quant"
  /\ Truthy(ticker)
  /\ \E ok \in StubOutcomes("get_yfinance_data", ticker[1]) :
       LET fd == get_yfinance_data(ticker[1], ok)
           answered == Called("get_yfinance_data", ticker[1], "error" \notin DOMAIN fd)
       IN  /\ financial_data' = Some(fd)
           /\ calls' = Append(calls, answered)
           /\ stub' = stub \cup {Called("get_yfinance_data", ticker[1], ok)}
           /\ IF "error" \in DOMAIN fd
              THEN Raise(fd["error"])
              ELSE /\ pc' = "finance"
                   /\ UNCHANGED results
  /\ UNCHANGED <<query, company_name, ticker, research_output,
                 analysis_output, history>>

\* lines 267-275: stage 2 with a ticker, the data fetch
Gateway ==
  /\ pc = "quant"
  /\ Truthy(ticker)
  /\ \E ok \in StubOutcomes("get_yfinance_data", ticker[1]) :
       LET fd == get_yfinance_data(ticker[1], ok)
           answered == Called("get_yfinance_data", ticker[1], "error" \notin DOMAIN fd)
       IN  /\ financial_data' = Some(fd)
           /\ calls' = Append(calls, answered)
           /\ stub' = stub \cup {Called("get_yfinance_data", ticker[1], ok)}
           /\ IF "error" \in DOMAIN fd
              THEN /\ results' = SetStage(results, "quantitative_analysis",
                        [output |-> fd["error"], status |-> "failed"])
                   /\ pc' = "synthesis"
              ELSE /\ pc' = "finance"
                   /\ UNCHANGED results
  /\ UNCHANGED <<query, company_name, ticker, research_output,
                 analysis_output, history>>

\* SkipQuantitative with an empty else branch: nothing is recorded
SkipQuantitative_NoEntry ==
  /\ pc = "quant"
  /\ ~Truthy(ticker)
  /\ pc' = "synthesis"
  /\ UNCHANGED <<query, company_name, ticker, results, research_output,
                 financial_data, analysis_output, calls, stub, history>>

\* lines 286-290: stage 2 without a ticker
SkipQuantitative ==
  /\ pc = "quant"
  /\ ~Truthy(ticker)
  /\ results' = SetStage(results, "quantitative_analysis",
       [output |-> SkippedOutput, status |-> "skipped"])
  /\ pc' = "synthesis"
  /\ UNCHANGED <<query, company_name, ticker, research_output,
                 financial_data, analysis_output, calls, stub, history>>

\* lines 276-285: stage 2a, the finance agent on the snapshot
Finance ==
  /\ pc = "finance"
  /\ LET prompt == FinancePrompt(financial_data[1])
     IN  \E ok \in StubOutcomes("finance_agent", prompt) :
           /\ calls' = Append(calls, Called("finance_agent", prompt, ok))
           /\ stub' = stub \cup {Called("finance_agent", prompt, ok)}
           /\ IF ok
              THEN /\ results' = SetStage(results, "quantitative_analysis",
                        [output |-> Reply("finance_agent", prompt),
                         status |-> "completed",
                         raw_data |-> financial_data[1]])
                   /\ pc' = "synthesis"
              ELSE Raise(ExcText("finance_agent"))
  /\ UNCHANGED <<query, company_name, ticker, research_output,
                 financial_data, analysis_output, history>>

\* lines 292-306: stage 3
Synthesis ==
  /\ pc = "synthesis"
  /\ LET prompt == AnalysisInput(research_output[1], results)
     IN  \E ok \in StubOutcomes("analysis_agent", prompt) :
           /\ calls' = Append(calls, Called("analysis_agent", prompt, ok))
           /\ stub' = stub \cup {Called("analysis_agent", prompt, ok)}
           /\ IF ok
              THEN /\ analysis_output' = Some(Reply("analysis_agent", prompt))
                   /\ results' = SetStage(results, "investment_analysis",
                        [output |-> Reply("analysis_agent", prompt),
                         status |-> "completed"])
                   /\ pc' = "editor"
              ELSE /\ Raise(ExcText("analysis_agent"))
                   /\ UNCHANGED analysis_output
  /\ UNCHANGED <<query, company_name, ticker, research_output,
                 financial_data, history>>

\* lines 308-322: stage 4
Editor ==
  /\ pc = "editor"
  /\ LET prompt == EditorPrompt(research_output[1], results, analysis_output[1])
     IN  \E ok \in StubOutcomes("editor_agent", prompt) :
           /\ calls' = Append(calls, Called("editor_agent", prompt, ok))
           /\ stub' = stub \cup {Called("editor_agent", prompt, ok)}
           /\ IF ok
              THEN /\ results' = SetKey(SetKey(results, "final_report",
                                               Reply("editor_agent", prompt)),
                                        "status", "success")
                   /\ pc' = "returned"
              ELSE Raise(ExcText("editor_agent"))
  /\ UNCHANGED <<query, company_name, ticker, research_output,
                 financial_data, analysis_output, history>>

Next ==
  \/ Extract
  \/ Research
  \/ Gateway
  \/ SkipQuantitative
  \/ Finance
  \/ Synthesis
  \/ Editor

\* one run of investment_analysis_pipeline on any of the bounded queries
Spec == Init /\ [][Next]_vars

\* ------------------------------------------------------------ repeated runs
\* the process calls the pipeline again (main's loop, lines 373-387): the
\* locals of the finished call are gone, the external world stays
Finished(q, p, res) == [query |-> q, pc |-> p, results |-> res]

Rerun ==
  /\ pc \in {"returned", "raised"}
  /\ Len(history) + 1 < MaxRuns
  /\ history' = Append(history, Finished(query, pc, results))
  /\ query' \in RerunQueries
  /\ pc' = "start"
  /\ company_name' = Unbound
  /\ ticker' = Unbound
  /\ results' = <<>>
  /\ research_output' = Unbound
  /\ financial_data' = Unbound
  /\ analysis_output' = Unbound
  /\ calls' = <<>>
  /\ UNCHANGED stub

InitRerun == Init /\ query \in RerunQueries

NextRerun == Next \/ Rerun

SpecRerun == InitRerun /\ [][NextRerun]_vars

\* ---------------------------------------------------------- concurrent runs
\* Two invocations of investment_analysis_pipeline run in two threads of the
\* process.  Every name the function assigns is local to the invocation
\* (lines 238-255); the agents and the provider are module-level and shared.
\* The variables above hold the locals of the thread that is running,
\* history[1] those of the thread that is waiting.
CurrentContext ==
  [query |-> query, pc |-> pc, company_name |-> company_name,
   ticker |-> ticker, results |-> results,
   research_output |-> research_output, financial_data |-> financial_data,
   analysis_output |-> analysis_output, calls |-> calls]

\* the locals of an invocation that has not started
NewContext(q) ==
  [query |-> q, pc |-> "start", company_name |-> Unbound, ticker |-> Unbound,
   results |-> <<>>, research_output |-> Unbound, financial_data |-> Unbound,
   analysis_output |-> Unbound, calls |-> <<>>]

Resume(ctx) ==
  /\ query' = ctx.query
  /\ pc' = ctx.pc
  /\ company_name' = ctx.company_name
  /\ ticker' = ctx.ticker
  /\ results' = ctx.results
  /\ research_output' = ctx.research_output
  /\ financial_data' = ctx.financial_data
  /\ analysis_output' = ctx.analysis_output
  /\ calls' = ctx.calls

Over(p) == p \in {"returned", "raised"}

\* Switch with ticker a module-level name instead of a local
Switch_SharedTicker ==
  /\ Len(history) = 1
  /\ ~Over(history[1].pc)
  /\ history' = <<CurrentContext>>
  /\ query' = history[1].query
  /\ pc' = history[1].pc
  /\ company_name' = history[1].company_name
  /\ results' = history[1].results
  /\ research_output' = history[1].research_output
  /\ financial_data' = history[1].financial_data
  /\ analysis_output' = history[1].analysis_output
  /\ calls' = history[1].calls
  /\ UNCHANGED <<ticker, stub>>

\* the scheduler lets the other thread run
Switch ==
  /\ Len(history) = 1
  /\ ~Over(history[1].pc)
  /\ history' = <<CurrentContext>>
  /\ Resume(history[1])
  /\ UNCHANGED stub

\* both invocations are over; one of the two queries is run again, alone
SoloRerun ==
  /\ Len(history) = 1
  /\ Over(pc)
  /\ Over(history[1].pc)
  /\ history' = <<history[1], CurrentContext>>
  /\ \E q \in {query, history[1].query} : Resume(NewContext(q))
  /\ UNCHANGED stub

InitConc ==
  /\ query \in RerunQueries
  /\ pc = "start"
  /\ company_name = Unbound
  /\ ticker = Unbound
  /\ results = <<>>
  /\ research_output = Unbound
  /\ financial_data = Unbound
  /\ analysis_output = Unbound
  /\ calls = <<>>
  /\ stub = {}
  /\ \E q \in RerunQueries \ {query} : history = <<NewContext(q)>>

NextConc == Next \/ Switch \/ SoloRerun

SpecConc == InitConc /\ [][NextConc]_vars

\* ----------------------------------------------------------- display_report
\* str.replace(' ', '_')
replace_spaces(s) == [i \in 1..Len(s) |-> IF s[i] = " " THEN "_" ELSE s[i]]

\* results.get('ticker', '') inside the f-string
TickerText(res) ==
  IF "ticker" \notin DOMAIN res THEN <<>>
  ELSE IF res["ticker"] = None THEN <<"None">> ELSE res["ticker"][1]

\* f"investment_report_{company.replace(' ', '_')}_{now:%Y%m%d_%H%M%S}.md"
ReportFilename(company, now) ==
  <<"investment_report_">> \o replace_spaces(company) \o <<"_", ToString(now), ".md">>

\* open(filename, 'w') in the working directory: a name with a path
\* separator points into a directory that does not exist
CanOpen(filename) == \A i \in 1..Len(filename) : filename[i] # "/"

\* what display_report(results) prints and writes, and the exception it
\* raises, if any; now is datetime.now() of line 350
display_report(res, now) ==
  IF "error" \in DOMAIN res
  THEN [printed |-> <<"Error: ">> \o res["error"], file |-> None, raised |-> None]
  ELSE IF "final_report" \notin DOMAIN res
  THEN [printed |-> <<"FINAL INVESTMENT REPORT: ">> \o res["company"] \o TickerText(res),
        file |-> None, raised |-> Some(<<"KeyError: 'final_report'">>)]
  ELSE LET shown == <<"FINAL INVESTMENT REPORT: ">> \o res["company"] \o TickerText(res)
                      \o res["final_report"]
                      \o <<"Report generated on: ", ToString(res["date"])>>
           filename == ReportFilename(res["company"], now)
       IN  IF CanOpen(filename)
           THEN [printed |-> shown \o <<"Report saved to: ">> \o filename,
                 file |-> Some([name |-> filename, content |-> res["final_report"]]),
                 raised |-> None]
           ELSE [printed |-> shown, file |-> None,
                 raised |-> Some(<<"[Errno 2] No such file or directory: ">> \o filename)]

\* --------------------------------------------------------------------- main
\* The loop of main (lines 373-393).  pc = "input" is line 375, waiting for
\* the user; pc = "exited" is after the loop.  history is what the loop has
\* done so far, one entry per pass.
InExit == <<" ", "e", "x", "i", "t">>
InQuit == <<"Q", "U", "I", "T">>
InExits == <<"e", "x", "i", "t", "s">>
InSlash == <<"A", "n", "a", "l", "y", "z", "e", " ", "A", "/", "B">>
WordExit == <<"e", "x", "i", "t">>
WordQuit == <<"q", "u", "i", "t">>

\* what the user may type
MainInputs ==
  {InExit, InQuit, InExits, InSlash, FragTSLA, ScenarioA, ScenarioB, ScenarioC}

\* str.lower()
lower(s) == [i \in 1..Len(s) |-> ToLower(s[i])]

\* IsExit without the lower(): the comparison is case-sensitive
IsExit_CaseSensitive(u) == u \in {WordExit, WordQuit}

\* user_input.lower() in ["exit", "quit"]
IsExit(u) == lower(u) \in {WordExit, WordQuit}

Pass(input, outcome, shown) ==
  [input |-> input, outcome |-> outcome, printed |-> shown.printed,
   file |-> shown.file, raised |-> shown.raised]

Nothing == [printed |-> <<>>, file |-> None, raised |-> None]

InitMain ==
  /\ query = <<>>
  /\ pc = "input"
  /\ company_name = Unbound
  /\ ticker = Unbound
  /\ results = <<>>
  /\ research_output = Unbound
  /\ financial_data = Unbound
  /\ analysis_output = Unbound
  /\ calls = <<>>
  /\ stub = {}
  /\ history = <<>>

\* lines 375-386: read a line, leave on exit/quit, reject a short line,
\* otherwise call the pipeline
ReadInput ==
  /\ pc = "input"
  /\ Len(history) < MaxLoops
  /\ \E raw \in MainInputs :
       LET user_input == strip(raw)
       IN  IF IsExit(user_input)
           THEN /\ pc' = "exited"
                /\ history' = Append(history, Pass(user_input, "exit", Nothing))
                /\ UNCHANGED query
           ELSE IF Len(user_input) < 5
           THEN /\ pc' = "input"
                /\ history' = Append(history, Pass(user_input, "rejected", Nothing))
                /\ UNCHANGED query
           ELSE /\ pc' = "start"
                /\ query' = user_input
                /\ UNCHANGED history
  /\ UNCHANGED <<company_name, ticker, results, research_output,
                 financial_data, analysis_output, calls, stub>>

\* lines 387 and 392-393: the pipeline is back; display_report runs, an
\* Exception it (or the pipeline) raised is printed, and the loop goes on
Display ==
  /\ Over(pc)
  /\ \E now \in Dates :
       LET shown == IF pc = "raised"
                    THEN [printed |-> <<>>, file |-> None,
                          raised |-> Some(<<"raised by the pipeline">>)]
                    ELSE display_report(results, now)
       IN  history' = Append(history,
             Pass(query, IF shown.raised = None THEN "shown" ELSE "unexpected", shown))
  /\ pc' = "input"
  /\ query' = <<>>
  /\ company_name' = Unbound
  /\ ticker' = Unbound
  /\ results' = <<>>
  /\ research_output' = Unbound
  /\ financial_data' = Unbound
  /\ analysis_output' = Unbound
  /\ calls' = <<>>
  /\ UNCHANGED stub

\* lines 389-391: Ctrl-C at any moment of the loop
Interrupt ==
  /\ pc # "exited"
  /\ pc' = "exited"
  /\ history' = Append(history, Pass(query, "cancelled", Nothing))
  /\ UNCHANGED <<query, company_name, ticker, results, research_output,
                 financial_data, analysis_output, calls, stub>>

NextMain == Next \/ ReadInput \/ Display \/ Interrupt

SpecMain == InitMain /\ [][NextMain]_vars

\* ------------------------------------------------------------ vocabulary
CalledNames == {calls[i].call : i \in DOMAIN calls}
CallFailed(name) == \E i \in DOMAIN calls : calls[i].call = name /\ ~calls[i].ok
AllCallsOk == \A i \in DOMAIN calls : calls[i].ok
HasStages == "stages" \in DOMAIN results
HasStage(name) == HasStages /\ name \in DOMAIN results.stages
NoPatternMatches(q) == \A n \in 1..Len(patterns) : search(patterns[n], q) = None

\* ------------------------------------------------------------------- C1
\* C1 (as claimed): a query with no ticker and no company phrase returns a
\* result with status=failed, an error text and an empty stages map, and the
\* run has made no external call.
C1_ExtractionFailureShape ==
  (/\ pc = "returned"
   /\ extract_ticker(query) = None
   /\ extract_company_name(query) = None)
  => /\ "error" \in DOMAIN results
     /\ "status" \in DOMAIN results
     /\ results["status"] = "failed"
     /\ "stages" \in DOMAIN results
     /\ DOMAIN results["stages"] = {}
     /\ calls = <<>>

\* ------------------------------------------------------------------- C2
\* C2: once get_yfinance_data has answered with an error, the
\* quantitative_analysis entry is {output: that error message, status:
\* failed}, finance_agent is never called, the run goes on to the synthesis,
\* and it returns status=success exactly when no agent call failed.
C2_GatewayErrorNotFatal ==
  CallFailed("get_yfinance_data")
  => /\ HasStage("quantitative_analysis")
     /\ results.stages["quantitative_analysis"] =
          [output |-> financial_data[1]["error"], status |-> "failed"]
     /\ "finance_agent" \notin CalledNames
     /\ pc \in {"synthesis", "editor", "returned"}
     /\ pc = "returned" => "analysis_agent" \in CalledNames
     /\ (/\ pc = "returned"
         /\ ~CallFailed("research_agent")
         /\ ~CallFailed("analysis_agent")
         /\ ~CallFailed("editor_agent"))
        => /\ "status" \in DOMAIN results
           /\ results["status"] = "success"

C2_Witness ==
  /\ CallFailed("get_yfinance_data")
  /\ pc = "returned"
  /\ "status" \in DOMAIN results
  /\ results["status"] = "success"

\* ------------------------------------------------------------------- C3
\* C3 (as claimed): when finance_agent raises after a snapshot was fetched,
\* the quantitative_analysis entry is recorded as failed, the top-level
\* handler is not entered by that exception, and the synthesis is attempted.
C3_FinanceFailureNotFatal ==
  CallFailed("finance_agent")
  => /\ HasStage("quantitative_analysis")
     /\ results.stages["quantitative_analysis"].status = "failed"
     /\ "analysis_agent" \in CalledNames \/ pc = "synthesis"

\* ------------------------------------------------------------------- C4
\* C4: when the research_agent call fails the run has returned with
\* status=failed and the error recorded, the stages map is empty, and the
\* failed call is the only external call of the run.
C4_ResearchFailureAborts ==
  CallFailed("research_agent")
  => /\ pc = "returned"
     /\ "status" \in DOMAIN results
     /\ results["status"] = "failed"
     /\ "error" \in DOMAIN results
     /\ results["error"] = ExcText("research_agent")
     /\ HasStages
     /\ DOMAIN results.stages = {}
     /\ "final_report" \notin DOMAIN results
     /\ Len(calls) = 1

C4_Witness ==
  /\ CallFailed("research_agent")
  /\ pc = "returned"
  /\ Truthy(ticker)

\* ------------------------------------------------------------------- C5
\* C5: a failing analysis_agent or editor_agent call is the last step of the
\* run: the run returns (the exception does not reach the caller) with
\* status=failed and error = the failure message, final_report is not set,
\* and company, ticker, date and every stages entry written before the call
\* (qualitative_research and quantitative_analysis, plus investment_analysis
\* for the editor) are in the returned result unchanged.
LastCallFailed(name) ==
  /\ calls # <<>>
  /\ calls[Len(calls)].call = name
  /\ ~calls[Len(calls)].ok

C5_FailingStep(name, before) ==
  (Len(calls') = Len(calls) + 1 /\ calls'[Len(calls')].call = name /\ ~calls'[Len(calls')].ok)
  => /\ pc' = "returned"
     /\ DOMAIN results' = DOMAIN results \cup {"error", "status"}
     /\ results'["status"] = "failed"
     /\ results'["error"] = ExcText(name)
     /\ "final_report" \notin DOMAIN results'
     /\ DOMAIN results.stages = before
     /\ \A k \in DOMAIN results : results'[k] = results[k]

C5_LateFailureKeepsStages ==
  /\ [](\A name \in {"analysis_agent", "editor_agent"} :
          CallFailed(name) => pc = "returned" /\ LastCallFailed(name))
  /\ [][/\ C5_FailingStep("analysis_agent",
             {"qualitative_research", "quantitative_analysis"})
        /\ C5_FailingStep("editor_agent",
             {"qualitative_research", "quantitative_analysis",
              "investment_analysis"})]_vars

C5_Witness ==
  /\ CallFailed("editor_agent")
  /\ pc = "returned"
  /\ results["status"] = "failed"
  /\ HasStage("investment_analysis")

\* ------------------------------------------------------------------- C6
\* C6: in a run whose query has no ticker, get_yfinance_data and
\* finance_agent are never called and, once stage 2 is passed, the
\* quantitative_analysis entry is {placeholder, skipped}; and in every run,
\* whenever the synthesis or the editorial step is reached, the key
\* quantitative_analysis is in stages with status completed, failed or
\* skipped.
PastStageTwo ==
  \/ pc \in {"synthesis", "editor"}
  \/ "analysis_agent" \in CalledNames

C6_QuantitativeAlwaysPresent ==
  /\ (pc # "start" /\ extract_ticker(query) = None)
     => /\ "get_yfinance_data" \notin CalledNames
        /\ "finance_agent" \notin CalledNames
        /\ PastStageTwo
           => /\ HasStage("quantitative_analysis")
              /\ results.stages["quantitative_analysis"] =
                   [output |-> SkippedOutput, status |-> "skipped"]
  /\ PastStageTwo
     => /\ HasStage("quantitative_analysis")
        /\ results.stages["quantitative_analysis"].status
             \in {"completed", "failed", "skipped"}

C6_Witness ==
  /\ pc = "editor"
  /\ extract_ticker(query) = None
  /\ results.stages["quantitative_analysis"].status = "skipped"

\* ------------------------------------------------------------------- C7
\* C7: the keys of stages are always the first n of qualitative_research,
\* quantitative_analysis, investment_analysis, and no step of the run
\* changes or removes an entry that is already there.
StageOrder == <<"qualitative_research", "quantitative_analysis", "investment_analysis">>

StagesArePrefix ==
  HasStages =>
    \E n \in 0..Len(StageOrder) :
      DOMAIN results.stages = {StageOrder[i] : i \in 1..n}

StagesKept ==
  HasStages =>
    /\ "stages" \in DOMAIN results'
    /\ \A k \in DOMAIN results.stages :
         /\ k \in DOMAIN results'.stages
         /\ results'.stages[k] = results.stages[k]

C7_StagesInOrderAndImmutable == []StagesArePrefix /\ [][StagesKept]_vars

C7_Witness ==
  /\ HasStages
  /\ DOMAIN results.stages = {StageOrder[i] : i \in 1..3}
  /\ results.stages["quantitative_analysis"].status = "completed"

\* ------------------------------------------------------------------- C8
\* C8: when extract_ticker finds a ticker in the query and none of the
\* company patterns matches, the company name of the run, the company in the
\* result and the company in the research prompt are all the ticker string.
C8_TickerIsCompanyFallback ==
  (/\ pc # "start"
   /\ extract_ticker(query) # None
   /\ NoPatternMatches(query))
  => /\ company_name = extract_ticker(query)
     /\ "company" \in DOMAIN results
     /\ results["company"] = extract_ticker(query)[1]
     /\ \A i \in DOMAIN calls :
          calls[i].call = "research_agent"
          => calls[i].input = ResearchPrompt(extract_ticker(query)[1])

C8_Witness ==
  /\ pc = "returned"
  /\ extract_ticker(query) = Some(FragTSLA)
  /\ NoPatternMatches(query)
  /\ Len(query) > Len(FragTSLA)
  /\ "research_agent" \in CalledNames
  /\ results["company"] = FragTSLA

\* ------------------------------------------------------------------- C9
TeslaPosition == <<"T", "e", "s", "l", "a", "'", "s", " ", "f", "i", "n", "a", "n", "c", "i", "a", "l", " ", "p", "o", "s", "i", "t", "i", "o", "n">>
TeslaPositionTicker == <<"T", "e", "s", "l", "a", "'", "s", " ", "f", "i", "n", "a", "n", "c", "i", "a", "l", " ", "p", "o", "s", "i", "t", "i", "o", "n", " ", "(", "T", "S", "L", "A", ")">>

\* the run on scenario A has returned and no external call failed
ScenarioADone == query = ScenarioA /\ pc = "returned" /\ AllCallsOk

ScenarioAOutcome(company) ==
  /\ ticker = Some(FragTSLA)
  /\ company_name = Some(company)
  /\ results["company"] = company
  /\ results["ticker"] = Some(FragTSLA)
  /\ DOMAIN results.stages = {StageOrder[i] : i \in 1..3}
  /\ \A k \in DOMAIN results.stages : results.stages[k].status = "completed"
  /\ CalledNames = {"research_agent", "get_yfinance_data", "finance_agent",
                    "analysis_agent", "editor_agent"}
  /\ results["status"] = "success"
  /\ "final_report" \in DOMAIN results
  /\ results["final_report"] # <<>>

\* C9 (as claimed): the run on "Analyze Tesla's financial position (TSLA)"
\* with every external call succeeding has ticker "TSLA" and company
\* "Tesla's financial position", every stage completed, status=success and
\* a non-empty final_report.
C9_ScenarioA_AsClaimed == ScenarioADone => ScenarioAOutcome(TeslaPosition)

\* C9 (amended): the same, with company "Tesla's financial position (TSLA)":
\* the capture of  analyze (.*?)$  runs to the end of the query.
C9_ScenarioA == ScenarioADone => ScenarioAOutcome(TeslaPositionTicker)

C9_Witness == ScenarioADone /\ results["status"] = "success"

\* ------------------------------------------------------------------ C10
\* a result without its date
SameButDate(a, b) ==
  /\ DOMAIN a = DOMAIN b
  /\ \A k \in DOMAIN a \ {"date"} : a[k] = b[k]

\* the finished runs of the process, the current one included
FinishedRuns ==
  IF pc \in {"returned", "raised"}
  THEN Append(history, Finished(query, pc, results))
  ELSE history

\* C10: two finished runs of the process on the same query, the external
\* calls answering the same input the same way, both return, and their
\* results agree on every key except date.
C10_RerunSameResult ==
  \A i, j \in DOMAIN FinishedRuns :
    FinishedRuns[i].query = FinishedRuns[j].query
    => /\ FinishedRuns[i].pc = "returned"
       /\ FinishedRuns[j].pc = "returned"
       /\ SameButDate(FinishedRuns[i].results, FinishedRuns[j].results)

C10_Witness ==
  /\ Len(FinishedRuns) >= 2
  /\ FinishedRuns[1].query = FinishedRuns[2].query
  /\ "final_report" \in DOMAIN FinishedRuns[2].results
  /\ FinishedRuns[1].results["date"] # FinishedRuns[2].results["date"]

\* ------------------------------------------------------------------ C11
\* C11: within one run no external call (research_agent, get_yfinance_data,
\* finance_agent, analysis_agent, editor_agent) is made twice, and a failed
\* agent call is the last call of the run: nothing is re-attempted.
C11_NoRetry ==
  /\ \A i, j \in DOMAIN calls : calls[i].call = calls[j].call => i = j
  /\ \A i \in DOMAIN calls :
       (~calls[i].ok /\ calls[i].call # "get_yfinance_data") => i = Len(calls)

C11_Witness ==
  /\ pc = "returned"
  /\ CallFailed("get_yfinance_data")
  /\ CallFailed("editor_agent")
  /\ Len(calls) = 4

\* ------------------------------------------------------------------ C12
CallRank(name) ==
  CASE name = "research_agent" -> 1
    [] name = "get_yfinance_data" -> 2
    [] name = "finance_agent" -> 3
    [] name = "analysis_agent" -> 4
    [] name = "editor_agent" -> 5

\* what must already be recorded in the state a call is issued from
RecordedBefore(name) ==
  CASE name = "research_agent" -> calls = <<>> /\ HasStages /\ DOMAIN results.stages = {}
    [] name = "get_yfinance_data" -> HasStage("qualitative_research")
    [] name = "finance_agent" ->
         /\ HasStage("qualitative_research")
         /\ calls[Len(calls)] = Called("get_yfinance_data", ticker[1], TRUE)
    [] name = "analysis_agent" ->
         HasStage("qualitative_research") /\ HasStage("quantitative_analysis")
    [] name = "editor_agent" -> HasStage("investment_analysis")

IssuesCallInOrder ==
  Len(calls') = Len(calls) + 1 => RecordedBefore(calls'[Len(calls')].call)

\* C12: the calls of a run are issued in the order research_agent,
\* get_yfinance_data, finance_agent, analysis_agent, editor_agent, and each
\* is issued from a state in which the previous stage's result is recorded:
\* the gateway only after qualitative_research, the synthesis only after
\* quantitative_analysis, the editor only after investment_analysis.
C12_CallsInStageOrder ==
  /\ [](\A i, j \in DOMAIN calls :
          i < j => CallRank(calls[i].call) < CallRank(calls[j].call))
  /\ [][IssuesCallInOrder]_vars

C12_Witness ==
  /\ Len(calls) = 5
  /\ AllCallsOk
  /\ pc = "returned"

\* ------------------------------------------------------------------ C13
StageOutput(name) == results.stages[name].output

InputOf(name) == calls[CHOOSE i \in DOMAIN calls : calls[i].call = name].input

\* the text the quantitative stage holds, by its status
QuantOutputByStatus ==
  LET st == results.stages["quantitative_analysis"].status
  IN  CASE st = "completed" ->
             /\ "finance_agent" \in CalledNames
             /\ StageOutput("quantitative_analysis")
                  = Reply("finance_agent", InputOf("finance_agent"))
        [] st = "failed" ->
             StageOutput("quantitative_analysis") = financial_data[1]["error"]
        [] st = "skipped" ->
             StageOutput("quantitative_analysis") = SkippedOutput

\* C13: the prompt of the synthesis call is made of the recorded research
\* text and the recorded quantitative_analysis text (the finance reply when
\* completed, the gateway's error message when failed, the placeholder when
\* skipped); the editor's prompt is made of the same two texts and the
\* recorded investment_analysis text; final_report of a successful run is
\* the reply to the editor call.
C13_PromptsFromRecordedTexts ==
  /\ "analysis_agent" \in CalledNames
     => /\ InputOf("analysis_agent") =
             <<"Qualitative Research:">> \o StageOutput("qualitative_research")
               \o <<"Quantitative Analysis:">> \o StageOutput("quantitative_analysis")
        /\ QuantOutputByStatus
  /\ "editor_agent" \in CalledNames
     => InputOf("editor_agent") =
          <<"Qualitative Research Summary:">> \o StageOutput("qualitative_research")
            \o <<"Financial Analysis:">> \o StageOutput("quantitative_analysis")
            \o <<"Investment Analysis:">> \o StageOutput("investment_analysis")
  /\ (pc = "returned" /\ "status" \in DOMAIN results /\ results["status"] = "success")
     => /\ "editor_agent" \in CalledNames
        /\ results["final_report"] = Reply("editor_agent", InputOf("editor_agent"))

C13_Witness ==
  /\ pc = "returned"
  /\ CallFailed("get_yfinance_data")
  /\ "final_report" \in DOMAIN results
  /\ results.stages["quantitative_analysis"].status = "failed"

\* ------------------------------------------------------------------ C14
PassedExtraction ==
  Truthy(extract_company_name(query)) \/ Truthy(extract_ticker(query))

\* C14: the result returned by a run that found a company or a ticker has
\* status success or failed; success only with qualitative_research and
\* investment_analysis completed, quantitative_analysis present,
\* final_report set and no error; failed only with error set and no
\* final_report.
C14_ReturnedResultShape ==
  (pc = "returned" /\ PassedExtraction)
  => /\ "status" \in DOMAIN results
     /\ results["status"] \in {"success", "failed"}
     /\ results["status"] = "success"
        => /\ HasStage("qualitative_research")
           /\ results.stages["qualitative_research"].status = "completed"
           /\ HasStage("investment_analysis")
           /\ results.stages["investment_analysis"].status = "completed"
           /\ HasStage("quantitative_analysis")
           /\ "final_report" \in DOMAIN results
           /\ "error" \notin DOMAIN results
     /\ results["status"] = "failed"
        => /\ "error" \in DOMAIN results
           /\ "final_report" \notin DOMAIN results

C14_Witness ==
  /\ pc = "returned"
  /\ PassedExtraction
  /\ results["status"] = "failed"
  /\ HasStage("investment_analysis")

\* ------------------------------------------------------------------ C15
\* the run of the same query that took part in the interleaving
ConcurrentRunOf(q) == history[CHOOSE i \in 1..2 : history[i].query = q]

\* the entities of the running invocation are the ones of its own query
OwnEntities ==
  (pc # "start" /\ PassedExtraction)
  => /\ ticker = extract_ticker(query)
     /\ company_name = ResolveCompany(extract_company_name(query), extract_ticker(query))
     /\ results["company"] = company_name[1]
     /\ results["ticker"] = ticker

\* C15: a run that was interleaved in any way with a run on another query
\* ends as the run of the same query executed alone does (same company,
\* ticker, stages, final_report, status, error); at every step the running
\* invocation holds the entities of its own query, and no step of it
\* changes the locals of the waiting one.
C15_InterleavingIsInvisible ==
  /\ []OwnEntities
  /\ []((Len(history) = 2 /\ Over(pc))
        => /\ ConcurrentRunOf(query).pc = pc
           /\ SameButDate(ConcurrentRunOf(query).results, results)
           /\ ConcurrentRunOf(query).company_name = company_name
           /\ ConcurrentRunOf(query).ticker = ticker)
  /\ [][(Len(history) = 1 /\ ~Over(pc) /\ query' = query) => history' = history]_vars

C15_Witness ==
  /\ Len(history) = 2
  /\ pc = "returned"
  /\ "final_report" \in DOMAIN results
  /\ Len(history[1].calls) >= 3
  /\ Len(history[2].calls) >= 3

\* ------------------------------------------------------------------ C16
\* the words of a query: the maximal runs of word characters, as <<first, last>>
WordsOf(q) ==
  {w \in (1..Len(q)) \X (1..Len(q)) :
     /\ w[1] <= w[2]
     /\ \A k \in w[1]..w[2] : q[k] \in WordChar
     /\ w[1] = 1 \/ q[w[1] - 1] \notin WordChar
     /\ w[2] = Len(q) \/ q[w[2] + 1] \notin WordChar}

\* the words made of 1 to 5 upper-case letters and nothing else
TickerWordsOf(q) ==
  {w \in WordsOf(q) :
     /\ w[2] - w[1] + 1 <= 5
     /\ \A k \in w[1]..w[2] : q[k] \in Upper}

LeftmostTickerWord(q) ==
  IF TickerWordsOf(q) = {} THEN None
  ELSE LET w == CHOOSE v \in TickerWordsOf(q) :
                  \A u \in TickerWordsOf(q) : v[1] <= u[1]
       IN  Some(SubSeq(q, w[1], w[2]))

ClaimedOrder ==
  <<LitAnalysisOf, LitResearchOn, LitInformationAbout, LitEvaluate, LitAnalyze>>

\* the patterns that match somewhere in the query
MatchingPatterns(q) == {n \in 1..Len(patterns) : MatchStarts(patterns[n], q) # {}}

\* what the run holds as company name when extract_company_name returned c
CompanyAfter(c) == IF c # None /\ c[1] # <<>> THEN c ELSE IF Truthy(ticker) THEN ticker ELSE c

\* C17: the patterns are tried in the order analysis of..please, research
\* on, information about, evaluate, analyze; the company name of the run is
\* the trimmed capture of the first pattern in that order that matches
\* anywhere in the query, wherever the phrases stand in the query, and None
\* when no pattern matches (the run then falls back to the ticker).
C17_FirstPatternInListOrder ==
  /\ \A n \in 1..Len(patterns) : patterns[n].head = ClaimedOrder[n]
  /\ Len(patterns) = Len(ClaimedOrder)
  /\ pc # "start"
     => IF MatchingPatterns(query) = {}
        THEN company_name = CompanyAfter(None)
        ELSE LET n == Min(MatchingPatterns(query))
             IN  company_name = CompanyAfter(Some(strip(search(patterns[n], query)[1])))

C17_Witness ==
  /\ pc # "start"
  /\ query = QueryTwoPhrases
  /\ Min(MatchStarts(patterns[5], query)) < Min(MatchStarts(patterns[4], query))
  /\ company_name = Some(FragTesla)

\* ------------------------------------------------------------------ C18
ExitWords == {WordExit, WordQuit}

\* the step adds a pass to the log of the loop, and it is not a Ctrl-C
LogsPass ==
  /\ Len(history') = Len(history) + 1
  /\ history'[Len(history')].outcome # "cancelled"

LoggedPass == history'[Len(history')]

\* a line read at the prompt: exit or quit in any case leaves the loop, any
\* other line shorter than 5 characters is rejected and the prompt returns;
\* neither starts the pipeline
InputStep ==
  (pc = "input" /\ pc' # "start" /\ LogsPass)
  => /\ calls' = <<>>
     /\ IF lower(LoggedPass.input) \in ExitWords
        THEN LoggedPass.outcome = "exit" /\ pc' = "exited"
        ELSE /\ LoggedPass.outcome = "rejected"
             /\ Len(LoggedPass.input) < 5
             /\ pc' = "input"

\* the end of a pass that ran the pipeline: whatever came back (a failed
\* result, a success, an exception of display_report), the prompt returns
ProcessedStep ==
  (Over(pc) /\ LogsPass)
  => /\ pc' = "input"
     /\ LoggedPass.outcome \in {"shown", "unexpected"}
     /\ LoggedPass.raised # None => LoggedPass.outcome = "unexpected"

\* C18: exit or quit in any letter case ends the loop without running the
\* pipeline; an input shorter than 5 characters is rejected without running
\* the pipeline and the loop prompts again; the pipeline only ever runs on
\* a line of 5 or more characters that is not exit or quit; after a query
\* whose processing returned a failed result or raised an exception the
\* loop is back at the prompt; nothing happens after the loop has ended.
C18_LoopControl ==
  /\ []((pc \notin {"input", "exited"})
        => Len(query) >= 5 /\ lower(query) \notin ExitWords)
  /\ [][InputStep /\ ProcessedStep /\ pc # "exited"]_vars

C18_Witness ==
  /\ Len(history) = 2
  /\ history[1].outcome = "unexpected"
  /\ history[2].outcome = "exit"
  /\ history[2].input # WordExit
  /\ pc = "exited"

\* ------------------------------------------------------------------ C19
\* text occurs in printed as a contiguous piece
Renders(printed, text) ==
  \E k \in 0..(Len(printed) - Len(text)) :
    SubSeq(printed, k + 1, k + Len(text)) = text

\* C19 (as claimed): display_report writes a file only for a result without
\* error; for a result with error it prints the error and writes no file;
\* for a result with status=success it prints final_report and writes a
\* file whose content is exactly final_report.
DisplayStep ==
  (pc = "returned" /\ LogsPass)
  => /\ "error" \in DOMAIN results
        => /\ LoggedPass.file = None
           /\ Renders(LoggedPass.printed, results["error"])
     /\ LoggedPass.file # None => "error" \notin DOMAIN results
     /\ ("status" \in DOMAIN results /\ results["status"] = "success")
        => /\ Renders(LoggedPass.printed, results["final_report"])
           /\ LoggedPass.file # None
           /\ LoggedPass.file[1].content = results["final_report"]

C19_DisplayPersistsReport == [][DisplayStep]_vars

====
